---- MODULE Spec2Model ----
(***************************************************************************)
(* Model of SavingsCalculator.py: deposit_and_invest, time_to_target,      *)
(* pension_payment and mortgage_vs_rent.                                   *)
(*                                                                         *)
(* Number representation.  Python floats are modelled in fixed point:     *)
(*   - money amounts are integers (currency units);                        *)
(*   - growth rates are integers in units of 1/Scale (0.04 is 400);        *)
(*   - percentages are integers in hundredths of a percent, so that        *)
(*     p/100 as a fraction is p in units of 1/Scale (4% is 400);           *)
(*   - the value of math.exp is an integer in units of 1/Scale;            *)
(*   - a time computed by math.log is an integer in units of 1/TimeScale   *)
(*     of a year; the year counted by the loop is converted to the same    *)
(*     unit.                                                               *)
(* Every true division rounds toward minus infinity.                       *)
(*                                                                         *)
(* Every function returns a record.  kind is "int" or "float" for a        *)
(* returned number (the Python type), "inf" for math.inf, "pair" for a     *)
(* tuple and "raise" for an exception, whose class name is in exc.         *)
(***************************************************************************)
EXTENDS Integers, Sequences, FiniteSets, TLC

VARIABLES call, ret

vars == <<call, ret>>

\* ------------------------------------------------------------------------
\* Bounds of the model
\* ------------------------------------------------------------------------

\* Largest Tmax passed explicitly to time_to_target.
MaxTmax == 4

\* Longest list of ages (and of salaries) passed to pension_payment.
MaxAges == 3

\* Tmax used when the caller omits it.  The source default is 1000; the
\* model simulates a shorter horizon.
TmaxDefault == 6

\* ------------------------------------------------------------------------
\* Fixed-point arithmetic
\* ------------------------------------------------------------------------

Scale == 10000

TimeScale == 100

\* Number of terms of the exponential series.
ExpOrder == 16

\* Largest magnitude of an argument of math.log's result, in 1/Scale.
LnMax == 30000

\* a / b rounded toward minus infinity, b # 0.
FDiv(a, b) == IF b > 0 THEN a \div b ELSE (0 - a) \div (0 - b)

RECURSIVE ExpSeries(_, _, _, _)
ExpSeries(x, k, term, acc) ==
    IF k > ExpOrder \/ term = 0
    THEN acc
    ELSE LET nt == FDiv(term * x, k * Scale)
         IN  ExpSeries(x, k + 1, nt, acc + nt)

\* math.exp(x / Scale) * Scale
Exp(x) == ExpSeries(x, 1, Scale, Scale)

RECURSIVE LnSearch(_, _, _)
LnSearch(q, lo, hi) ==
    IF lo >= hi
    THEN lo
    ELSE LET mid == FDiv(lo + hi + 1, 2)
         IN  IF Exp(mid) <= q
             THEN LnSearch(q, mid, hi)
             ELSE LnSearch(q, lo, mid - 1)

\* math.log(q / Scale) * Scale for q > 0: the largest k with exp(k) <= q.
Ln(q) == LnSearch(q, 0 - LnMax, LnMax)

\* ------------------------------------------------------------------------
\* Results
\* ------------------------------------------------------------------------

NoOut == << >>

Value(kind, v, out) == [kind |-> kind, v |-> v, exc |-> "", out |-> out]

Raise(exc, out) == [kind |-> "raise", v |-> 0, exc |-> exc, out |-> out]

\* What the caller observes: the returned value or the exception raised.
Outcome(r) == [kind |-> r.kind, v |-> r.v, exc |-> r.exc]

\* ------------------------------------------------------------------------
\* deposit_and_invest
\* ------------------------------------------------------------------------

MonthsPerYear == 12

\* deposit_and_invest with the division guarded: a zero rate yields the
\* initial sum instead of an error.
deposit_and_invest_guarded(x0, monthly_deposit, annual_return, T, verbose) ==
    LET annual_deposit == MonthsPerYear * monthly_deposit
    IN  IF annual_return = 0
        THEN Value("float", x0, NoOut)
        ELSE LET A == x0 + FDiv(annual_deposit * Scale, annual_return)
                 x == FDiv(A * Exp(annual_return * T), Scale)
                        - FDiv(annual_deposit * Scale, annual_return)
             IN  Value("float", x,
                       IF verbose THEN <<"Deposits", "Total return">> ELSE NoOut)

\* x0: money, monthly_deposit: money, annual_return: rate, T: years.
deposit_and_invest(x0, monthly_deposit, annual_return, T, verbose) ==
    LET annual_deposit == MonthsPerYear * monthly_deposit
    IN  IF annual_return = 0
        THEN Raise("ZeroDivisionError", NoOut)
        ELSE LET A == x0 + FDiv(annual_deposit * Scale, annual_return)
                 x == FDiv(A * Exp(annual_return * T), Scale)
                        - FDiv(annual_deposit * Scale, annual_return)
             IN  Value("float", x,
                       IF verbose THEN <<"Deposits", "Total return">> ELSE NoOut)

\* ------------------------------------------------------------------------
\* time_to_target
\* ------------------------------------------------------------------------

\* Locals of time_to_target at the end of the for loop.  tSet and TSet tell
\* whether the names t and T are bound.
RECURSIVE Loop(_, _, _, _, _, _, _, _, _)
Loop(x, y, t, tSet, Tmax, i, monthly_deposit, annual_return, target_annual_return) ==
    IF i >= Tmax
    THEN [t |-> t, tSet |-> tSet, T |-> 0, TSet |-> FALSE]
    ELSE IF x >= y
         THEN [t |-> i, tSet |-> TRUE, T |-> i, TSet |-> TRUE]
         ELSE Loop(deposit_and_invest(x, monthly_deposit, annual_return, 1, FALSE).v,
                   deposit_and_invest(y, 0, target_annual_return, 1, FALSE).v,
                   i, TRUE, Tmax, i + 1,
                   monthly_deposit, annual_return, target_annual_return)

time_to_target(target, x0, monthly_deposit, annual_return, target_annual_return, Tmax) ==
    LET annual_deposit == MonthsPerYear * monthly_deposit
    IN  IF annual_return = 0
        THEN Raise("ZeroDivisionError", NoOut)
        ELSE
        LET A == x0 + FDiv(annual_deposit * Scale, annual_return)
        IN  IF target_annual_return = 0
            THEN \* solve analytically
                 IF A = 0
                 THEN Raise("ZeroDivisionError", NoOut)
                 ELSE LET q == FDiv((target + FDiv(annual_deposit * Scale, annual_return))
                                      * Scale, A)
                      IN  IF q <= 0
                          THEN Raise("ValueError", NoOut)
                          ELSE Value("float", FDiv(Ln(q) * TimeScale, annual_return), NoOut)
            ELSE \* solve numerically
                 LET l == Loop(x0, target, 0, FALSE, Tmax, 0,
                               monthly_deposit, annual_return, target_annual_return)
                 IN  IF ~l.tSet
                     THEN Raise("UnboundLocalError", NoOut)
                     ELSE IF l.t = Tmax - 1
                          THEN Value("inf", 0, NoOut)
                          ELSE IF ~l.TSet
                               THEN Raise("UnboundLocalError", NoOut)
                               ELSE Value("int", l.T * TimeScale, NoOut)

\* ------------------------------------------------------------------------
\* pension_payment
\* ------------------------------------------------------------------------

\* Ages for which no retirement-age warning is issued.
RetirementAges == {62, 67}

\* death_factor values from this one on are month factors, below it ages.
MonthsFactorThreshold == 120

Min(a, b) == IF a < b THEN a ELSE b

\* The local months_factor before it is assigned.
Unassigned == [set |-> FALSE, v |-> 0, isFloat |-> FALSE]

\* The result of pension_payment together with what it did on the way:
\* months_factor is the local of that name, calls the list of the calls of
\* deposit_and_invest, out the warnings and printed lines.
PResult(res, months_factor, calls) ==
    [kind |-> res.kind, v |-> res.v, exc |-> res.exc, out |-> res.out,
     months_factor |-> months_factor, calls |-> calls]

\* salaries after "if type(salaries) is not list: salaries=[salaries]".
\* The argument is a record: list holds a list argument, scalar a number.
AsList(salaries) == IF salaries.isList THEN salaries.list ELSE <<salaries.scalar>>

\* monthly deposit of one segment.
MonthlyDeposit(a, salary) ==
    LET monthly_deposit ==
            FDiv(salary * (a.worker_deposit + a.company_deposit + a.compensation), Scale)
    IN  FDiv(monthly_deposit * (Scale - a.deposit_cost), Scale)

\* The for loop over zip(ages[:-1], ages[1:], salaries), from its i-th
\* triple on, with s the sum so far.
RECURSIVE Simulate(_, _, _, _, _, _)
Simulate(a, salaries, i, s, calls, out) ==
    IF i > Min(Len(a.ages) - 1, Len(salaries))
    THEN [res |-> Value("float", s, out), calls |-> calls]
    ELSE LET ti == a.ages[i]
             tf == a.ages[i + 1]
             salary == salaries[i]
         IN  IF a.verbose /\ a.agesFloat
             THEN [res |-> Raise("ValueError", out), calls |-> calls]
             ELSE LET out1 == IF a.verbose THEN Append(out, "Ages") ELSE out
                      annual_return == a.annual_return - a.annual_cost
                      c == [x0 |-> s, monthly_deposit |-> MonthlyDeposit(a, salary),
                            annual_return |-> annual_return, T |-> tf - ti]
                      r == deposit_and_invest(c.x0, c.monthly_deposit,
                                              c.annual_return, c.T, FALSE)
                  IN  IF r.kind = "raise"
                      THEN [res |-> Raise(r.exc, out1), calls |-> Append(calls, c)]
                      ELSE Simulate(a, salaries, i + 1, r.v, Append(calls, c), out1)

\* MonthsFactor with the threshold itself taken for an age.
MonthsFactor_inclusive(a) ==
    IF a.death_factor <= MonthsFactorThreshold
    THEN [set |-> TRUE,
          v |-> MonthsPerYear * (a.death_factor - a.ages[Len(a.ages)]),
          isFloat |-> a.deathFloat \/ a.agesFloat]
    ELSE [set |-> TRUE, v |-> a.death_factor, isFloat |-> a.deathFloat]

\* months_factor as resolved from death_factor.
MonthsFactor(a) ==
    IF a.death_factor < MonthsFactorThreshold
    THEN [set |-> TRUE,
          v |-> MonthsPerYear * (a.death_factor - a.ages[Len(a.ages)]),
          isFloat |-> a.deathFloat \/ a.agesFloat]
    ELSE [set |-> TRUE, v |-> a.death_factor, isFloat |-> a.deathFloat]

\* Simulation and payment, after months_factor has been resolved.
Payment(a, salaries, months_factor, out) ==
    LET sim == Simulate(a, salaries, 1, a.initial_sum, << >>, out)
    IN  IF sim.res.kind = "raise"
        THEN PResult(sim.res, months_factor, sim.calls)
        ELSE IF months_factor.v = 0
             THEN PResult(Raise("ZeroDivisionError", sim.res.out),
                          months_factor, sim.calls)
             ELSE PResult(Value("float", FDiv(sim.res.v, months_factor.v),
                                IF a.verbose
                                THEN Append(sim.res.out, "Estimated monthly payment")
                                ELSE sim.res.out),
                          months_factor, sim.calls)

\* pension_payment from the retirement-age check on; advisory tells whether
\* the final age is found not to be a retirement age.
Validate(a, out0, advisory) ==
    IF advisory /\ a.agesFloat
    THEN PResult(Raise("ValueError", out0), Unassigned, << >>)
    ELSE
    LET out1 == IF advisory THEN Append(out0, "Retirement age") ELSE out0
        salaries == AsList(a.salaries)
    IN  IF Len(salaries) # Len(a.ages) - 1
        THEN PResult(Raise("IOError", out1), Unassigned, << >>)
        ELSE
        LET months_factor == MonthsFactor(a)
            printed == a.death_factor < MonthsFactorThreshold /\ a.verbose
        IN  IF printed /\ months_factor.isFloat
            THEN PResult(Raise("ValueError", out1), months_factor, << >>)
            ELSE Payment(a, salaries, months_factor,
                         IF printed THEN Append(out1, "Months factor") ELSE out1)

\* a: the arguments.  agesFloat and deathFloat tell whether the ages and
\* death_factor are Python floats rather than ints.
pension_payment(a) ==
    LET out0 == IF ~a.ImSureIKnowWhatIDo THEN <<"BEWARE">> ELSE NoOut
    IN  IF Len(a.ages) = 0
        THEN PResult(Raise("IndexError", out0), Unassigned, << >>)
        ELSE Validate(a, out0, a.ages[Len(a.ages)] \notin RetirementAges)

\* ------------------------------------------------------------------------
\* mortgage_vs_rent
\* ------------------------------------------------------------------------

NoTime == Outcome(Value("none", 0, NoOut))

\* The result of mortgage_vs_rent: kind is "pair" for the returned tuple
\* (t_rent, t_mortgage).
MResult(kind, exc, t_rent, t_mortgage, out) ==
    [kind |-> kind, exc |-> exc, t_rent |-> t_rent, t_mortgage |-> t_mortgage,
     out |-> out]

MOutcome(r) ==
    [kind |-> r.kind, exc |-> r.exc, t_rent |-> r.t_rent, t_mortgage |-> r.t_mortgage]

\* RentReturn without taxation.
RentReturn_untaxed(a) == a.annual_return

\* (1-TAX/100)*annual_return/100
RentReturn(a) == FDiv((Scale - a.TAX) * a.annual_return, Scale)

\* mortgage_cost/100
MortgageReturn(a) == a.mortgage_cost

\* Some percentage x satisfies 0 < x < 1.
LooksLikeFraction(a) ==
    \E x \in {a.annual_return, a.mortgage_cost, a.price_increase, a.TAX} :
        0 < x /\ x < 100

\* mortgage_vs_rent from the two calls of time_to_target on.
Compare(a, out) ==
    LET t_rent == time_to_target(a.price, a.initial_sum, a.monthly_saving,
                                 RentReturn(a), a.price_increase, TmaxDefault)
    IN  IF t_rent.kind = "raise"
        THEN MResult("raise", t_rent.exc, NoTime, NoTime, out)
        ELSE
        LET t_mortgage == time_to_target(0, a.initial_sum - a.price,
                                         a.monthly_saving + a.rent_cost,
                                         MortgageReturn(a), a.price_increase,
                                         TmaxDefault)
        IN  IF t_mortgage.kind = "raise"
            THEN MResult("raise", t_mortgage.exc, NoTime, NoTime, out)
            ELSE MResult("pair", "", Outcome(t_rent), Outcome(t_mortgage),
                         IF a.verbose
                         THEN out \o <<"Time required", "Rent-and-invest", "Mortgage">>
                         ELSE out)

Advise(a, out0, advisory) ==
    Compare(a, IF advisory THEN Append(out0, "units are percent") ELSE out0)

mortgage_vs_rent(a) ==
    Advise(a, IF ~a.ImSureIKnowWhatIDo THEN <<"BEWARE">> ELSE NoOut,
           LooksLikeFraction(a))

\* ------------------------------------------------------------------------
\* Inputs
\* ------------------------------------------------------------------------

Moneys == {0 - 500, 0, 1000, 1500, 2000}

Deposits == {0, 10, 30, 50}

Rates == {0 - 300, 0, 300, 500}

TargetRates == {0, 300, 1000}

Durations == {0, 1, 5}

Ages == {60, 67}

Salaries == {500, 800}

InitialSums == {0, 1000}

DeathFactors == {67, 85, 119, 120, 240}

\* Percentages, in hundredths of a percent.
AnnualCosts == {1, 400}

Prices == {1000, 2000}

Savings == {500, 2000}

MonthlySavings == {10, 50}

RentCosts == {0, 20}

AnnualReturns == {0, 50, 500}

MortgageCosts == {0, 300}

PriceIncreases == {0, 300}

Taxes == {0, 25, 2500}

\* All sequences over S of length at most n.
SeqsUpTo(S, n) == UNION {[1..k -> S] : k \in 0..n}

SalaryArgs ==
    {[isList |-> TRUE, list |-> l, scalar |-> 0] : l \in SeqsUpTo(Salaries, MaxAges)}
        \cup {[isList |-> FALSE, list |-> << >>, scalar |-> x] : x \in Salaries}

\* ------------------------------------------------------------------------
\* State machine: one action per public function; the library keeps no
\* state between calls, so a state is the last call and its result.
\* ------------------------------------------------------------------------

Idle == [fn |-> "none"]

NoResult == Value("none", 0, NoOut)

Init ==
    /\ call = Idle
    /\ ret = NoResult

CallDepositAndInvest ==
    /\ call = Idle
    /\ \E x0 \in Moneys, d \in Deposits, r \in Rates, T \in Durations, vb \in BOOLEAN :
           /\ call' = [fn |-> "deposit_and_invest", x0 |-> x0, monthly_deposit |-> d,
                       annual_return |-> r, T |-> T, verbose |-> vb]
           /\ ret' = deposit_and_invest(x0, d, r, T, vb)

CallTimeToTarget ==
    /\ call = Idle
    /\ \E target \in Moneys, x0 \in Moneys, d \in Deposits, r \in Rates,
          g \in TargetRates, Tmax \in 0..MaxTmax :
           /\ call' = [fn |-> "time_to_target", target |-> target, x0 |-> x0,
                       monthly_deposit |-> d, annual_return |-> r,
                       target_annual_return |-> g, Tmax |-> Tmax]
           /\ ret' = time_to_target(target, x0, d, r, g, Tmax)

CallPensionPayment ==
    /\ call = Idle
    /\ \E initial_sum \in InitialSums, ages \in SeqsUpTo(Ages, MaxAges),
          agesFloat \in BOOLEAN, salaries \in SalaryArgs,
          death_factor \in DeathFactors, deathFloat \in BOOLEAN,
          annual_cost \in AnnualCosts, verbose \in BOOLEAN, sure \in BOOLEAN :
           LET a == [fn |-> "pension_payment", initial_sum |-> initial_sum,
                     ages |-> ages, agesFloat |-> agesFloat, salaries |-> salaries,
                     death_factor |-> death_factor, deathFloat |-> deathFloat,
                     worker_deposit |-> 600, company_deposit |-> 650,
                     compensation |-> 600, deposit_cost |-> 150,
                     annual_cost |-> annual_cost, annual_return |-> 400,
                     verbose |-> verbose, ImSureIKnowWhatIDo |-> sure]
           IN  /\ call' = a
               /\ ret' = pension_payment(a)

CallMortgageVsRent ==
    /\ call = Idle
    /\ \E price \in Prices, initial_sum \in Savings, monthly_saving \in MonthlySavings,
          rent_cost \in RentCosts, annual_return \in AnnualReturns,
          mortgage_cost \in MortgageCosts, price_increase \in PriceIncreases,
          TAX \in Taxes, verbose \in BOOLEAN, sure \in BOOLEAN :
           LET a == [fn |-> "mortgage_vs_rent", price |-> price,
                     initial_sum |-> initial_sum, monthly_saving |-> monthly_saving,
                     rent_cost |-> rent_cost, annual_return |-> annual_return,
                     mortgage_cost |-> mortgage_cost, price_increase |-> price_increase,
                     TAX |-> TAX, verbose |-> verbose, ImSureIKnowWhatIDo |-> sure]
           IN  /\ call' = a
               /\ ret' = mortgage_vs_rent(a)

\* The call returns; nothing is kept for the next call.
Return ==
    /\ call # Idle
    /\ call' = Idle
    /\ ret' = NoResult

Next ==
    \/ CallDepositAndInvest
    \/ CallTimeToTarget
    \/ CallPensionPayment
    \/ CallMortgageVsRent
    \/ Return

Spec == Init /\ [][Next]_vars

\* ------------------------------------------------------------------------
\* Properties of time_to_target and deposit_and_invest
\* ------------------------------------------------------------------------

IsTTT == call.fn = "time_to_target"

\* The iterative path with a defined balance growth.
Iterative == IsTTT /\ call.target_annual_return # 0 /\ call.annual_return # 0

\* The balance after t simulated years.
RECURSIVE BalanceAt(_)
BalanceAt(t) ==
    IF t = 0
    THEN call.x0
    ELSE deposit_and_invest(BalanceAt(t - 1), call.monthly_deposit,
                            call.annual_return, 1, FALSE).v

\* The target after t simulated years.
RECURSIVE TargetAt(_)
TargetAt(t) ==
    IF t = 0
    THEN call.target
    ELSE deposit_and_invest(TargetAt(t - 1), 0, call.target_annual_return, 1, FALSE).v

Reached(t) == BalanceAt(t) >= TargetAt(t)

FirstReached(t) == Reached(t) /\ \A u \in 0..(t - 1) : ~Reached(u)

\* C1: on the iterative path, if year t in 0..Tmax-1 is the first year at
\* which the simulated balance is at least the simulated target, the call
\* returns exactly t, the last checked year Tmax-1 included.
C1_ReturnsFirstCrossing ==
    Iterative =>
        \A t \in 0..(call.Tmax - 1) :
            FirstReached(t) => Outcome(ret) = Outcome(Value("int", t * TimeScale, NoOut))

\* C2: on the iterative path, for every Tmax >= 0, if the balance is below
\* the target at every checked year, the call returns math.inf and raises
\* nothing.
C2_UnreachableIsInf ==
    (Iterative /\ \A t \in 0..(call.Tmax - 1) : ~Reached(t)) =>
        Outcome(ret) = Outcome(Value("inf", 0, NoOut))

\* C7: on the iterative path, if target <= x0 the call returns 0 for every
\* Tmax >= 1.
C7_AlreadyReachedIsZero ==
    (Iterative /\ call.Tmax >= 1 /\ call.target <= call.x0) =>
        Outcome(ret) = Outcome(Value("int", 0, NoOut))

\* C8: with annual_return = 0, deposit_and_invest and time_to_target raise
\* ZeroDivisionError and return nothing, on both paths of time_to_target,
\* whatever the other arguments are.
C8_ZeroRateRaises ==
    (call.fn \in {"deposit_and_invest", "time_to_target"} /\ call.annual_return = 0) =>
        Outcome(ret) = Outcome(Raise("ZeroDivisionError", NoOut))

\* A call on the iterative path with a zero rate, the target already reached
\* and no iteration allowed has raised ZeroDivisionError.
C8_Witness ==
    /\ IsTTT
    /\ call.annual_return = 0
    /\ call.target_annual_return # 0
    /\ call.target <= call.x0
    /\ call.Tmax = 0
    /\ ret.exc = "ZeroDivisionError"

\* ------------------------------------------------------------------------
\* Properties of pension_payment
\* ------------------------------------------------------------------------

IsPP == call.fn = "pension_payment"

NumAges == Len(call.ages)

FinalAge == call.ages[NumAges]

\* The number of salaries equals the number of ages minus one.
ShapeOK == Len(AsList(call.salaries)) = NumAges - 1

\* C3: for every list of ages and list of salaries whose lengths do not
\* match, the empty list of ages included, pension_payment raises the
\* IOError of the length check, before any other failure and without
\* projecting any segment.
C3_MismatchRaisesIOError ==
    (IsPP /\ call.salaries.isList /\ ~ShapeOK) =>
        /\ Outcome(ret) = Outcome(Raise("IOError", NoOut))
        /\ ret.calls = << >>

\* The net rate (grossReturn - annualCost)/100.
NetRate == call.annual_return - call.annual_cost

\* The deposit of segment i:
\* salary x (sum of contribution percentages)/100 x (1 - frictionPercent/100).
SegmentDeposit(i) ==
    FDiv(FDiv(AsList(call.salaries)[i]
                * (call.worker_deposit + call.company_deposit + call.compensation),
              Scale)
           * (Scale - call.deposit_cost),
         Scale)

SegmentYears(i) == call.ages[i + 1] - call.ages[i]

\* The balance after the first i segments.
RECURSIVE BalanceAfter(_)
BalanceAfter(i) ==
    IF i = 0
    THEN call.initial_sum
    ELSE deposit_and_invest(BalanceAfter(i - 1), SegmentDeposit(i), NetRate,
                            SegmentYears(i), FALSE).v

\* The payout divisor.
Divisor ==
    IF call.death_factor < 120
    THEN 12 * (call.death_factor - FinalAge)
    ELSE call.death_factor

ExpectedCalls ==
    [i \in 1..(NumAges - 1) |->
        [x0 |-> BalanceAfter(i - 1), monthly_deposit |-> SegmentDeposit(i),
         annual_return |-> NetRate, T |-> SegmentYears(i)]]

\* C4: for every timeline of n ages and n-1 salaries, pension_payment calls
\* deposit_and_invest once per segment, in order, with the segment's
\* duration, deposit and the net rate, each call starting from the balance
\* the previous one returned, and returns the last balance divided by the
\* divisor (initial_sum divided by the divisor when n = 1).  A division by
\* zero (net rate or divisor zero) is the only failure.  Stated for ages
\* that are integers, as a career segment requires.
C4_SegmentsChained ==
    (IsPP /\ NumAges >= 1 /\ ShapeOK /\ ~call.agesFloat) =>
        IF NumAges >= 2 /\ NetRate = 0
        THEN Outcome(ret) = Outcome(Raise("ZeroDivisionError", NoOut))
        ELSE /\ ret.calls = ExpectedCalls
             /\ Outcome(ret) =
                    IF Divisor = 0
                    THEN Outcome(Raise("ZeroDivisionError", NoOut))
                    ELSE Outcome(Value("float",
                                       FDiv(BalanceAfter(NumAges - 1), Divisor), NoOut))

\* C5: the divisor is resolved by the threshold 120 alone: below it, it is
\* 12 x (death_factor - final age), from it on death_factor itself; it is
\* resolved only after the shape check has passed, and every payment
\* returned has been computed with it.
C5_DivisorByThreshold ==
    IsPP =>
        /\ ret.months_factor.set =>
               /\ NumAges >= 1 /\ ShapeOK
               /\ call.death_factor < 120 =>
                      ret.months_factor.v = 12 * (call.death_factor - FinalAge)
               /\ call.death_factor >= 120 =>
                      ret.months_factor.v = call.death_factor
        /\ ret.kind = "float" => ret.months_factor.set
        /\ ret.exc = "IOError" => ~ret.months_factor.set

\* A payment has been returned for death_factor = 119, an age.
C5_Witness ==
    /\ IsPP
    /\ call.death_factor = 119
    /\ ret.kind = "float"
    /\ ret.months_factor.v = 12 * (119 - FinalAge)
    /\ NumAges >= 2

\* ------------------------------------------------------------------------
\* Properties of mortgage_vs_rent
\* ------------------------------------------------------------------------

IsMVR == call.fn = "mortgage_vs_rent"

\* The pair of the two times, for a growth rate of the rent path; an
\* exception of time_to_target propagates.
ExpectedTimes(rentRate) ==
    LET yearsRentAndInvest ==
            time_to_target(call.price, call.initial_sum, call.monthly_saving,
                           rentRate, call.price_increase, TmaxDefault)
        yearsMortgage ==
            time_to_target(0, call.initial_sum - call.price,
                           call.monthly_saving + call.rent_cost,
                           call.mortgage_cost, call.price_increase, TmaxDefault)
    IN  IF yearsRentAndInvest.kind = "raise"
        THEN [kind |-> "raise", exc |-> yearsRentAndInvest.exc,
              t_rent |-> NoTime, t_mortgage |-> NoTime]
        ELSE IF yearsMortgage.kind = "raise"
             THEN [kind |-> "raise", exc |-> yearsMortgage.exc,
                   t_rent |-> NoTime, t_mortgage |-> NoTime]
             ELSE [kind |-> "pair", exc |-> "",
                   t_rent |-> Outcome(yearsRentAndInvest),
                   t_mortgage |-> Outcome(yearsMortgage)]

\* C6 as stated: TAX is a fraction, the rent path grows at
\* (1 - TAX) x annual_return/100.
C6_TaxAsFraction ==
    IsMVR => MOutcome(ret) = ExpectedTimes(FDiv((100 - call.TAX) * call.annual_return, 100))

\* C6 amended: TAX is a percentage, the rent path grows at
\* (1 - TAX/100) x annual_return/100; the mortgage path grows at
\* mortgage_cost/100 and TAX does not enter it.
C6_TaxAsPercent ==
    IsMVR => MOutcome(ret) = ExpectedTimes(FDiv((Scale - call.TAX) * call.annual_return, Scale))

\* A pair of finite times has been returned with a tax of 25 percent on a
\* positive return.
C6_Witness ==
    /\ IsMVR
    /\ call.TAX = 2500
    /\ call.annual_return > 0
    /\ ret.kind = "pair"
    /\ ret.t_rent.kind = "int"
    /\ ret.t_rent.v > 0
    /\ ret.t_mortgage.kind = "int"

\* ------------------------------------------------------------------------
\* Diagnostics
\* ------------------------------------------------------------------------

\* C9: the value returned or exception raised by deposit_and_invest,
\* pension_payment and mortgage_vs_rent is the same with verbose on and
\* off, with the disclaimer shown and suppressed, and whether or not the
\* retirement-age or percent advisory fires.
C9_DiagnosticsObservational ==
    /\ call.fn = "deposit_and_invest" =>
           Outcome(ret) = Outcome(deposit_and_invest(call.x0, call.monthly_deposit,
                                                     call.annual_return, call.T,
                                                     ~call.verbose))
    /\ IsPP =>
           /\ Outcome(ret) = Outcome(pension_payment([call EXCEPT !.verbose = ~@]))
           /\ Outcome(ret) =
                  Outcome(pension_payment([call EXCEPT !.ImSureIKnowWhatIDo = ~@]))
           /\ NumAges >= 1 =>
                  \A advisory \in BOOLEAN :
                      Outcome(ret) = Outcome(Validate(call, NoOut, advisory))
    /\ IsMVR =>
           /\ MOutcome(ret) = MOutcome(mortgage_vs_rent([call EXCEPT !.verbose = ~@]))
           /\ MOutcome(ret) =
                  MOutcome(mortgage_vs_rent([call EXCEPT !.ImSureIKnowWhatIDo = ~@]))
           /\ \A advisory \in BOOLEAN :
                  MOutcome(ret) = MOutcome(Advise(call, NoOut, advisory))

====
